---- MODULE Spec2Model ----
(***************************************************************************)
(* Model of generate-issues.py: WorkPlanParser.parse, execute_command and  *)
(* the direct-execution path of generate_issues (three passes over the     *)
(* parsed issues, then the final summary).                                 *)
(*                                                                         *)
(* A document is a sequence of stripped lines.  Each line is one of a      *)
(* small set of line shapes, named by a string:                            *)
(*   "E1" "E2"   a line matching EPIC_PATTERN with epic number 1 or 2      *)
(*   "SecF" ...  a line "### <name>" (Features, Tasks, Chores,             *)
(*               Potential Bugs, any other name)                           *)
(*   "F" "T" "C" "B"  lines matching FEATURE/TASK/CHORE/BUG_PATTERN        *)
(*   "Pri1" "Pri3"    "- Priority: 1 (..)" and "- Priority: 3"             *)
(*   "TyEpic" "TyBug" "- Type: epic" and "- Type: bug"                     *)
(*   "FDesc"     "- Description: <text>"                                   *)
(*   "DescMark"  "**Description:**"                                        *)
(*   "Text"      any other non-empty line                                  *)
(*   "Blank"     a line that is empty after strip()                        *)
(* Priority lines carry a number: int() of anything else raises ValueError *)
(* inside parse, before any command is issued.  The script-generating path *)
(* (output_file given) returns before the three passes and is not part of  *)
(* the model.                                                              *)
(***************************************************************************)
EXTENDS Integers, Sequences, FiniteSets, TLC

\* Longest document (in lines) the runs start from.
MaxLines == 4
\* Longest document (in lines) the parser-only runs start from.
MaxParseLines == 4

\* Python's None in an integer-valued field (epic_id, current_epic_num,
\* beads_id) and in the key "epic-None".
None == -1
\* Issue.parent left at its default None (epics).
NoParent == -2
\* The empty string as an issue id (output.get("id", "")).
EmptyId == 0
\* current_section = None
NoSection == "none"
\* range(3): attempts per dependency
MaxAttempts == 3

VARIABLES
    lines,          \* the work plan, one entry per line
    dry_run,        \* the --dry-run flag
    pc,             \* "parse", "phase1", "phase2", "phase3", "done";
                    \* "aborted" after an exception nothing catches
    issues,         \* parser.issues / the list generate_issues iterates
    epic_map,       \* generate_issues: "epic-<n>" -> beads id
    parent_map,     \* generate_issues: dict child id -> parent id, in insertion order
    idx,            \* position of the running for-loop (1-based)
    retry,          \* the retry variable of the inner loop of the third pass
    success_count,
    failed_count,
    next_id,        \* the store: the next identifier bd hands out
    calls,          \* history: every external command issued, in order
    summary,        \* what the end of the run printed
    returned        \* history: the list each parse() call returned, as it
                    \* stood at the return

\* cleanup-duplicates.py
VARIABLES
    store,          \* the epics of the bd store, in the order bd lists them
    cpc,            \* "idle", "closing", "done"
    to_close,       \* main: the list to_close
    close_idx,      \* position of the closing loop (1-based)
    runs,           \* how many times the script has been started
    close_calls     \* history: every "bd close" issued, in order

generate_vars == <<lines, dry_run, pc, issues, epic_map, parent_map, idx, retry,
                   success_count, failed_count, next_id, calls, summary,
                   returned>>

cleanup_vars == <<store, cpc, to_close, close_idx, runs, close_calls>>

vars == <<generate_vars, cleanup_vars>>

-----------------------------------------------------------------------------
(* Line shapes                                                             *)

EpicLines == {"E1", "E2"}
SectionLines == {"SecF", "SecT", "SecC", "SecB", "SecX"}
LineShapes == EpicLines \cup SectionLines \cup
              {"F", "T", "C", "B", "Pri1", "Pri3", "TyEpic", "TyBug",
               "FDesc", "DescMark", "Text", "Blank"}

\* The line shapes the documents of the runs are drawn from: what
\* generate_issues reads of an issue is its kind, its epic number and its
\* parent reference, and these shapes produce every combination of them.
RunLines == {"E1", "E2", "SecF", "F", "TyEpic"}

\* The line shapes the documents of the parser-only runs are drawn from.
ParseLines == {"E1", "E2", "SecF", "SecT", "SecC", "SecB", "F", "T", "C", "B",
               "TyEpic", "Pri1", "Blank"}

\* re.match(EPIC_PATTERN, line)
EPIC_PATTERN(line) == line \in EpicLines
\* epic_match.group(1)
EpicNum(line) == IF line = "E1" THEN 1 ELSE 2
FEATURE_PATTERN(line) == line = "F"
TASK_PATTERN(line) == line = "T"
CHORE_PATTERN(line) == line = "C"
BUG_PATTERN(line) == line = "B"

\* line.startswith("### ")
IsSectionHeader(line) == line \in SectionLines
\* Variant of SectionContains: any section name passes the test.
SectionContains_Any(section, word) == TRUE

\* "<word>" in current_section, for the lower-cased section name
SectionContains(section, word) ==
    \/ section = "SecF" /\ word = "features"
    \/ section = "SecT" /\ word = "tasks"
    \/ section = "SecC" /\ word = "chores"
    \/ section = "SecB" /\ word = "potential bugs"

\* lines[j].strip() is non-empty
NonEmpty(line) == line # "Blank"
\* next_line.startswith("**") or next_line.startswith("###")
StartsItemOrSection(line) ==
    line \in {"T", "C", "B", "DescMark", "F"} \cup SectionLines
\* lines[j].strip().startswith("###")
StartsHashes(line) == line \in {"F"} \cup SectionLines
IsPriority(line) == line \in {"Pri1", "Pri3"}
\* int(next_line.split(":")[1].split("(")[0].strip())
PriorityOf(line) == IF line = "Pri1" THEN 1 ELSE 3
IsType(line) == line \in {"TyEpic", "TyBug"}
\* next_line.split(":")[1].strip()
TypeOf(line) == IF line = "TyEpic" THEN "epic" ELSE "bug"
IsFeatureDesc(line) == line = "FDesc"

-----------------------------------------------------------------------------
(* Issue and WorkPlanParser.parse                                          *)

\* Issue.__init__; src is the line the issue was read from (history only).
Issue(title, issue_type, priority, description, parent, epic_id, src) ==
    [title |-> title, issue_type |-> issue_type, priority |-> priority,
     description |-> description, parent |-> parent, epic_id |-> epic_id,
     beads_id |-> None, src |-> src]

\* The inner while of the epic branch: lines after "**Description:**" up to
\* an empty line or a line starting with "###".
RECURSIVE CollectEpicDesc(_, _, _)
CollectEpicDesc(ls, j, acc) ==
    IF j <= Len(ls) /\ NonEmpty(ls[j]) /\ ~StartsHashes(ls[j])
    THEN CollectEpicDesc(ls, j + 1, Append(acc, ls[j]))
    ELSE acc

\* The outer while of the epic branch: find the first "**Description:**"
\* anywhere after line i.
RECURSIVE EpicDescription(_, _)
EpicDescription(ls, j) ==
    IF j > Len(ls) THEN <<>>
    ELSE IF ls[j] = "DescMark" THEN CollectEpicDesc(ls, j + 1, <<>>)
    ELSE EpicDescription(ls, j + 1)

\* The look-ahead of the feature branch, from line j on.
RECURSIVE FeatureAttrs(_, _, _)
FeatureAttrs(ls, j, a) ==
    IF j > Len(ls) \/ ~NonEmpty(ls[j]) THEN a
    ELSE IF IsPriority(ls[j])
         THEN FeatureAttrs(ls, j + 1, [a EXCEPT !.priority = PriorityOf(ls[j])])
    ELSE IF IsType(ls[j])
         THEN FeatureAttrs(ls, j + 1, [a EXCEPT !.issue_type = TypeOf(ls[j])])
    ELSE IF IsFeatureDesc(ls[j])
         THEN FeatureAttrs(ls, j + 1, [a EXCEPT !.desc = Append(@, ls[j])])
    ELSE IF StartsItemOrSection(ls[j]) THEN a
    ELSE FeatureAttrs(ls, j + 1, a)

\* The parent reference f"epic-{current_epic_num}"
ParentRef(current_epic_num) == current_epic_num

\* One iteration of the main while loop at line i: the issue appended, if any.
ParsedAt(ls, i, current_epic_num, current_section) ==
    LET line == ls[i] IN
    IF EPIC_PATTERN(line)
    THEN <<Issue(line, "epic", 1, EpicDescription(ls, i + 1), NoParent,
                 EpicNum(line), i)>>
    ELSE IF IsSectionHeader(line) THEN <<>>
    ELSE IF FEATURE_PATTERN(line) /\ current_section # NoSection
            /\ SectionContains(current_section, "features")
    THEN LET a == FeatureAttrs(ls, i + 1,
                    [priority |-> 2, issue_type |-> "feature", desc |-> <<>>])
         IN <<Issue(line, a.issue_type, a.priority, a.desc,
                    ParentRef(current_epic_num), None, i)>>
    ELSE IF TASK_PATTERN(line) /\ current_section # NoSection
            /\ SectionContains(current_section, "tasks")
    THEN <<Issue(line, "task", 2, <<>>, ParentRef(current_epic_num), None, i)>>
    ELSE IF CHORE_PATTERN(line) /\ current_section # NoSection
            /\ SectionContains(current_section, "chores")
    THEN <<Issue(line, "chore", 3, <<>>, ParentRef(current_epic_num), None, i)>>
    ELSE IF BUG_PATTERN(line) /\ current_section # NoSection
            /\ SectionContains(current_section, "potential bugs")
    THEN <<Issue(line, "bug", 4, <<>>, ParentRef(current_epic_num), None, i)>>
    ELSE <<>>

\* Variant of EpicNumAfter: only the first epic header sets the number.
EpicNumAfter_First(line, current_epic_num) ==
    IF EPIC_PATTERN(line) /\ current_epic_num = None
    THEN EpicNum(line) ELSE current_epic_num

\* current_epic_num after the iteration at line i
EpicNumAfter(line, current_epic_num) ==
    IF EPIC_PATTERN(line) THEN EpicNum(line) ELSE current_epic_num

\* current_section after the iteration at line i
SectionAfter(line, current_section) ==
    IF ~EPIC_PATTERN(line) /\ IsSectionHeader(line) THEN line ELSE current_section

\* The main while loop from line i on; acc is self.issues.
RECURSIVE ParseLoop(_, _, _, _, _)
ParseLoop(ls, i, current_epic_num, current_section, acc) ==
    IF i > Len(ls) THEN acc
    ELSE ParseLoop(ls, i + 1,
                   EpicNumAfter(ls[i], current_epic_num),
                   SectionAfter(ls[i], current_section),
                   acc \o ParsedAt(ls, i, current_epic_num, current_section))

\* WorkPlanParser.parse on a parser whose self.issues is self_issues
parse(self_issues, ls) == ParseLoop(ls, 1, None, NoSection, self_issues)

-----------------------------------------------------------------------------
(* Issue.to_command and execute_command                                    *)

\* Issue.to_command: the command line is determined by these four fields.
to_command(issue) ==
    [title |-> issue.title, t |-> issue.issue_type, p |-> issue.priority,
     d |-> issue.description]

\* What the bd process can do with a create command (direct execution):
\*   "ok"      exit 0, JSON with a fresh "id"
\*   "noid"    exit 0, JSON without an "id" key
\*   "fail"    non-zero exit (CalledProcessError)
\*   "badjson" exit 0, output that is not JSON (JSONDecodeError)
CreateOutcomes == {"ok", "noid", "fail", "badjson"}

\* What the bd process can do with a "dep add" command:
\*   "ok" exit 0; "locked" non-zero exit with "database is locked" in stderr;
\*   "other" non-zero exit with any other stderr.
LinkOutcomes == {"ok", "locked", "other"}

\* f"bd-{abs(hash(cmd)) % 100000:05x}": a non-empty id that depends on the
\* command text only (equal commands give equal ids).
DryRunId(cmd, all) ==
    100 + (CHOOSE k \in 1..Len(all) :
              /\ to_command(all[k]) = cmd
              /\ \A m \in 1..(k - 1) : to_command(all[m]) # cmd)

\* execute_command(cmd, dry_run) when the process behaves as `out`:
\* the pair (success, issue_id).
execute_command(cmd, dry, out, fresh, all) ==
    IF dry THEN [success |-> TRUE, issue_id |-> DryRunId(cmd, all)]
    ELSE IF out = "ok" THEN [success |-> TRUE, issue_id |-> fresh]
    ELSE IF out = "noid" THEN [success |-> TRUE, issue_id |-> EmptyId]
    ELSE [success |-> FALSE, issue_id |-> EmptyId]

\* Variant of Uncaught: execute_command without its JSONDecodeError handler.
Uncaught_NoJsonHandler(out) == out = "badjson"

\* The process behaviours that raise an exception execute_command does not
\* catch: CalledProcessError and JSONDecodeError are both handled.
Uncaught(out) == FALSE

\* History entry of one subprocess.run of a create command.
CreateCall(i, r) ==
    [op |-> "create", ph |-> pc, item |-> i,
     res |-> IF r.success THEN "ok" ELSE "fail",
     id |-> r.issue_id, child |-> None, parent |-> None]

\* History entry of one subprocess.run of a "dep add" command.
LinkCall(e, child, parent, out) ==
    [op |-> "link", ph |-> pc, item |-> e, res |-> out, id |-> None,
     child |-> child, parent |-> parent]

\* calls after execute_command: dry runs start no process.
Logged(dry, entry) == IF dry THEN calls ELSE Append(calls, entry)

-----------------------------------------------------------------------------
(* Python dicts                                                            *)

\* epic_map[key] = value
MapSet(map, key, value) ==
    [k \in DOMAIN map \cup {key} |-> IF k = key THEN value ELSE map[k]]

\* Variant of ResolveParent: an unknown key falls back on some created epic.
ResolveParent_AnyEpic(map, parent) ==
    IF parent = NoParent THEN EmptyId
    ELSE IF parent \in DOMAIN map THEN map[parent]
    ELSE IF DOMAIN map # {} THEN map[CHOOSE k \in DOMAIN map : TRUE]
    ELSE EmptyId

\* epic_map.get(issue.parent, "") if issue.parent else ""
ResolveParent(map, parent) ==
    IF parent = NoParent THEN EmptyId
    ELSE IF parent \in DOMAIN map THEN map[parent]
    ELSE EmptyId

\* parent_map[child] = parent on an insertion-ordered dict: an existing key
\* keeps its position and takes the new value.  by: the items that wrote the
\* entry (history only).
DictSet(d, child, parent, who) ==
    IF \E k \in 1..Len(d) : d[k].child = child
    THEN [k \in 1..Len(d) |->
            IF d[k].child = child
            THEN [child |-> child, parent |-> parent, by |-> d[k].by \cup {who}]
            ELSE d[k]]
    ELSE Append(d, [child |-> child, parent |-> parent, by |-> {who}])

-----------------------------------------------------------------------------
(* generate_issues, direct execution (output_file is None)                 *)

Documents == UNION {[1..n -> RunLines] : n \in 0..MaxLines}

\* cleanup-duplicates.py has not been started and the store holds no epic.
CleanupIdle ==
    /\ store = <<>>
    /\ cpc = "idle"
    /\ to_close = <<>>
    /\ close_idx = 0
    /\ runs = 0
    /\ close_calls = <<>>

Init ==
    /\ lines \in Documents
    /\ dry_run \in BOOLEAN
    /\ pc = "parse"
    /\ issues = <<>>
    /\ epic_map = <<>>
    /\ parent_map = <<>>
    /\ idx = 0
    /\ retry = 0
    /\ success_count = 0
    /\ failed_count = 0
    /\ next_id = 1
    /\ calls = <<>>
    /\ summary = [banner |-> "", deps |-> <<>>]
    /\ returned = <<>>
    /\ CleanupIdle

\* parser = WorkPlanParser(workplan_path); issues = parser.parse()
Parse ==
    /\ pc = "parse"
    /\ issues' = parse(<<>>, lines)
    /\ returned' = Append(returned, issues')
    /\ pc' = "phase1"
    /\ idx' = 1
    /\ UNCHANGED cleanup_vars
    /\ UNCHANGED <<lines, dry_run, epic_map, parent_map, retry, success_count,
                   failed_count, next_id, calls, summary>>

\* Variant of IsEpicIssue: the first pass does not filter on the kind.
IsEpicIssue_All(issue) == TRUE

\* First pass, the tested kind.
IsEpicIssue(issue) == issue.issue_type = "epic"

\* First pass, an iteration on an epic.
Phase1Create(out) ==
    /\ pc = "phase1"
    /\ idx <= Len(issues)
    /\ IsEpicIssue(issues[idx])
    /\ LET issue == issues[idx]
           r == execute_command(to_command(issue), dry_run, out, next_id, issues)
       IN /\ calls' = Logged(dry_run, CreateCall(idx, r))
          /\ next_id' = IF ~dry_run /\ out = "ok" THEN next_id + 1 ELSE next_id
          /\ IF ~dry_run /\ Uncaught(out)
             THEN pc' = "aborted" /\ UNCHANGED <<epic_map, issues, idx>>
             ELSE /\ IF r.success
                     THEN /\ epic_map' = MapSet(epic_map, issue.epic_id, r.issue_id)
                          /\ issues' = [issues EXCEPT ![idx].beads_id = r.issue_id]
                     ELSE UNCHANGED <<epic_map, issues>>
                  /\ idx' = idx + 1
                  /\ UNCHANGED pc
    /\ UNCHANGED <<lines, dry_run, parent_map, retry, success_count,
                   failed_count, summary>>
    /\ UNCHANGED <<returned, cleanup_vars>>

\* First pass, an iteration on any other issue.
Phase1Skip ==
    /\ pc = "phase1"
    /\ idx <= Len(issues)
    /\ ~IsEpicIssue(issues[idx])
    /\ idx' = idx + 1
    /\ UNCHANGED <<lines, dry_run, pc, issues, epic_map, parent_map, retry,
                   success_count, failed_count, next_id, calls, summary>>
    /\ UNCHANGED <<returned, cleanup_vars>>

\* End of the first pass.
Phase1End ==
    /\ pc = "phase1"
    /\ idx > Len(issues)
    /\ pc' = "phase2"
    /\ idx' = 1
    /\ UNCHANGED <<lines, dry_run, issues, epic_map, parent_map, retry,
                   success_count, failed_count, next_id, calls, summary>>
    /\ UNCHANGED <<returned, cleanup_vars>>

\* Variant of IsChildIssue: the second pass does not filter on the kind.
IsChildIssue_All(issue) == TRUE

\* Second pass, the tested kind.
IsChildIssue(issue) == issue.issue_type # "epic"

\* Variant of HasParentId: the edge is recorded whatever the lookup gave.
HasParentId_Always(parent_id) == TRUE

\* if parent_id: (second pass)
HasParentId(parent_id) == parent_id # EmptyId

\* Second pass, an iteration on a non-epic issue.
Phase2Create(out) ==
    /\ pc = "phase2"
    /\ idx <= Len(issues)
    /\ IsChildIssue(issues[idx])
    /\ LET issue == issues[idx]
           parent_id == ResolveParent(epic_map, issue.parent)
           r == execute_command(to_command(issue), dry_run, out, next_id, issues)
       IN /\ calls' = Logged(dry_run, CreateCall(idx, r))
          /\ next_id' = IF ~dry_run /\ out = "ok" THEN next_id + 1 ELSE next_id
          /\ IF ~dry_run /\ Uncaught(out)
             THEN pc' = "aborted" /\ UNCHANGED <<issues, parent_map, idx>>
             ELSE /\ IF r.success
                     THEN /\ issues' = [issues EXCEPT ![idx].beads_id = r.issue_id]
                          /\ parent_map' =
                               IF HasParentId(parent_id)
                               THEN DictSet(parent_map, r.issue_id, parent_id, idx)
                               ELSE parent_map
                     ELSE UNCHANGED <<issues, parent_map>>
                  /\ idx' = idx + 1
                  /\ UNCHANGED pc
    /\ UNCHANGED <<lines, dry_run, epic_map, retry, success_count,
                   failed_count, summary>>
    /\ UNCHANGED <<returned, cleanup_vars>>

\* Second pass, an iteration on an epic.
Phase2Skip ==
    /\ pc = "phase2"
    /\ idx <= Len(issues)
    /\ ~IsChildIssue(issues[idx])
    /\ idx' = idx + 1
    /\ UNCHANGED <<lines, dry_run, pc, issues, epic_map, parent_map, retry,
                   success_count, failed_count, next_id, calls, summary>>
    /\ UNCHANGED <<returned, cleanup_vars>>

\* The closing prints of generate_issues.
FinalBanner == "[SUCCESS] All issues created successfully!"

\* Variant of RunsThirdPass: the third pass runs in a dry run too.
RunsThirdPass_AnyMode == parent_map # <<>>

\* if parent_map and not dry_run:
RunsThirdPass == parent_map # <<>> /\ ~dry_run

\* End of the second pass: enter the third pass, or go straight to the
\* closing prints.
Phase2End ==
    /\ pc = "phase2"
    /\ idx > Len(issues)
    /\ IF RunsThirdPass
       THEN /\ pc' = "phase3"
            /\ idx' = 1
            /\ retry' = 0
            /\ success_count' = 0
            /\ failed_count' = 0
            /\ UNCHANGED summary
       ELSE /\ pc' = "done"
            /\ summary' = [banner |-> FinalBanner, deps |-> <<>>]
            /\ UNCHANGED <<idx, retry, success_count, failed_count>>
    /\ UNCHANGED <<lines, dry_run, issues, epic_map, parent_map, next_id, calls>>
    /\ UNCHANGED <<returned, cleanup_vars>>

\* Variant of RetriesLink: the cause of the failure is not inspected.
RetriesLink_AnyCause(r, out) == r < MaxAttempts - 1

\* except CalledProcessError: the retry test
RetriesLink(r, out) == r < MaxAttempts - 1 /\ out = "locked"

\* Variant of LinkSucceeded: a locked database is not seen as a failure.
LinkSucceeded_Unchecked(out) == out \in {"ok", "locked"}

\* subprocess.run(dep_cmd, check=True) returned without raising
LinkSucceeded(out) == out = "ok"

\* Variant of LinkAttempt: an edge that is given up is not counted.
LinkAttempt_Uncounted(out) ==
    /\ pc = "phase3"
    /\ idx <= Len(parent_map)
    /\ retry < MaxAttempts
    /\ calls' = Append(calls, LinkCall(idx, parent_map[idx].child,
                                       parent_map[idx].parent, out))
    /\ IF LinkSucceeded(out)
       THEN /\ success_count' = success_count + 1
            /\ idx' = idx + 1
            /\ retry' = 0
            /\ UNCHANGED failed_count
       ELSE IF RetriesLink(retry, out)
       THEN /\ retry' = retry + 1
            /\ UNCHANGED <<idx, success_count, failed_count>>
       ELSE /\ idx' = idx + 1
            /\ retry' = 0
            /\ UNCHANGED <<success_count, failed_count>>
    /\ UNCHANGED <<lines, dry_run, pc, issues, epic_map, parent_map, next_id,
                   summary>>
    /\ UNCHANGED <<returned, cleanup_vars>>

\* Third pass: one subprocess.run of the "dep add" command of entry idx.
LinkAttempt(out) ==
    /\ pc = "phase3"
    /\ idx <= Len(parent_map)
    /\ retry < MaxAttempts
    /\ calls' = Append(calls, LinkCall(idx, parent_map[idx].child,
                                       parent_map[idx].parent, out))
    /\ IF LinkSucceeded(out)
       THEN /\ success_count' = success_count + 1
            /\ idx' = idx + 1
            /\ retry' = 0
            /\ UNCHANGED failed_count
       ELSE IF RetriesLink(retry, out)
       THEN /\ retry' = retry + 1
            /\ UNCHANGED <<idx, success_count, failed_count>>
       ELSE /\ failed_count' = failed_count + 1
            /\ idx' = idx + 1
            /\ retry' = 0
            /\ UNCHANGED success_count
    /\ UNCHANGED <<lines, dry_run, pc, issues, epic_map, parent_map, next_id,
                   summary>>
    /\ UNCHANGED <<returned, cleanup_vars>>

\* End of the third pass and the closing prints.
Phase3End ==
    /\ pc = "phase3"
    /\ idx > Len(parent_map)
    /\ pc' = "done"
    /\ summary' = [banner |-> FinalBanner,
                   deps |-> <<success_count, failed_count>>]
    /\ UNCHANGED <<lines, dry_run, issues, epic_map, parent_map, idx, retry,
                   success_count, failed_count, next_id, calls>>
    /\ UNCHANGED <<returned, cleanup_vars>>

Next ==
    \/ Parse
    \/ \E out \in CreateOutcomes : Phase1Create(out)
    \/ Phase1Skip
    \/ Phase1End
    \/ \E out \in CreateOutcomes : Phase2Create(out)
    \/ Phase2Skip
    \/ Phase2End
    \/ \E out \in LinkOutcomes : LinkAttempt(out)
    \/ Phase3End

Spec == Init /\ [][Next]_vars

\* The process runs on: each step that can be taken is taken.
FairSpec == Spec /\ WF_vars(Next)

\* The parser alone, on documents over all the item and section shapes.
ParseDocuments == UNION {[1..n -> ParseLines] : n \in 0..MaxParseLines}

ParseInit ==
    /\ lines \in ParseDocuments
    /\ dry_run = FALSE
    /\ pc = "parse"
    /\ issues = <<>>
    /\ epic_map = <<>>
    /\ parent_map = <<>>
    /\ idx = 0
    /\ retry = 0
    /\ success_count = 0
    /\ failed_count = 0
    /\ next_id = 1
    /\ calls = <<>>
    /\ summary = [banner |-> "", deps |-> <<>>]
    /\ returned = <<>>
    /\ CleanupIdle

ParseSpec == ParseInit /\ [][Parse]_vars

\* The line shapes of the documents with description blocks and feature
\* attributes.
AttrLines == {"E1", "E2", "SecF", "F", "DescMark", "Text", "Blank", "Pri1",
              "TyBug", "FDesc"}

AttrDocuments == UNION {[1..n -> AttrLines] : n \in 0..MaxParseLines}

AttrInit ==
    /\ lines \in AttrDocuments
    /\ dry_run = FALSE
    /\ pc = "parse"
    /\ issues = <<>>
    /\ epic_map = <<>>
    /\ parent_map = <<>>
    /\ idx = 0
    /\ retry = 0
    /\ success_count = 0
    /\ failed_count = 0
    /\ next_id = 1
    /\ calls = <<>>
    /\ summary = [banner |-> "", deps |-> <<>>]
    /\ returned = <<>>
    /\ CleanupIdle

\* A second parser.parse() on the same WorkPlanParser object: the file is
\* read again and the loop appends to the self.issues the first call left.
Reparse ==
    /\ pc = "phase1"
    /\ Len(returned) = 1
    /\ issues' = parse(issues, lines)
    /\ returned' = Append(returned, issues')
    /\ pc' = "reparsed"
    /\ UNCHANGED <<lines, dry_run, epic_map, parent_map, idx, retry,
                   success_count, failed_count, next_id, calls, summary>>
    /\ UNCHANGED cleanup_vars

ParserNext ==
    \/ Parse
    \/ Reparse

\* The parser alone, called twice by its owner.
AttrParseSpec == AttrInit /\ [][ParserNext]_vars

-----------------------------------------------------------------------------
(* cleanup-duplicates.py                                                   *)
(*                                                                         *)
(* The store holds epics; an epic's id is its position in `store`, which   *)
(* is also the order "bd list" prints them in.  Of an epic the script      *)
(* reads the title and the "[P<n>]" tag from "bd list", and the "Created:" *)
(* and "Blocks (n):" lines from "bd show".                                 *)

\* Most epics in the store.
MaxEpics == 3
\* Most times the script is started.
MaxRuns == 2
\* datetime.min
DatetimeMin == 0

Titles == {"A", "B"}

\* created: the minute "bd show" prints, or None when the line is missing
\* or strptime rejects it.  blocks: the n of "Blocks (n):", 0 without it.
\* The script reads nothing more of an epic that is not tagged [P1], so one
\* record stands for all of those.
EpicRecords ==
    [title : Titles, priority : {1}, created : {None, 1, 2},
     blocks : {0, 1}, status : {"open"}]
    \cup {[title |-> "A", priority |-> 2, created |-> None, blocks |-> 0,
           status |-> "open"]}

Stores == UNION {[1..n -> EpicRecords] : n \in 0..MaxEpics}

\* What "bd close" can do: close the issue, or fail and leave it open.
CloseOutcomes == {"ok", "fail"}

\* Variant of ListedByBd: the listing is not restricted to open issues.
ListedByBd_AnyStatus(e) == TRUE

\* bd list --status=open
ListedByBd(e) == e.status = "open"

\* if '[epic]' in line and '[P1]' in line
KeptLine(e) == e.priority = 1

\* get_all_epics on store st, up to entry k
RECURSIVE EpicsUpTo(_, _)
EpicsUpTo(st, k) ==
    IF k = 0 THEN <<>>
    ELSE IF ListedByBd(st[k]) /\ KeptLine(st[k])
         THEN Append(EpicsUpTo(st, k - 1), [id |-> k, title |-> st[k].title])
         ELSE EpicsUpTo(st, k - 1)

get_all_epics(st) == EpicsUpTo(st, Len(st))

\* get_epic_details
get_epic_details(st, epic_id) ==
    [id |-> epic_id, created |-> st[epic_id].created,
     blocks_count |-> st[epic_id].blocks]

\* epics_by_title[title]: the ids listed under a title, in listing order
IdsOf(all_epics, title) ==
    LET same == SelectSeq(all_epics, LAMBDA e : e.title = title)
    IN [k \in 1..Len(same) |-> same[k].id]

\* The keys of `duplicates`, in insertion order: the titles listed more than
\* once, by first occurrence.
DuplicateTitles(all_epics) ==
    LET first == SelectSeq([k \in 1..Len(all_epics) |-> k],
                   LAMBDA k : \A m \in 1..(k - 1) :
                                 all_epics[m].title # all_epics[k].title)
        titles == [k \in 1..Len(first) |-> all_epics[first[k]].title]
    IN SelectSeq(titles, LAMBDA t : Len(IdsOf(all_epics, t)) > 1)

\* key=lambda x: (x['blocks_count'], x['created'] or datetime.min)
SortKey(d) ==
    <<d.blocks_count, IF d.created = None THEN DatetimeMin ELSE d.created>>

\* Tuple comparison a < b
KeyLess(a, b) == a[1] < b[1] \/ (a[1] = b[1] /\ a[2] < b[2])

\* list.sort(key=SortKey, reverse=True): descending, entries with equal keys
\* keep their order.
RECURSIVE SortDescending(_)
SortDescending(ds) ==
    IF ds = <<>> THEN <<>>
    ELSE LET k == CHOOSE k \in 1..Len(ds) :
                     /\ \A m \in 1..Len(ds) : ~KeyLess(SortKey(ds[k]), SortKey(ds[m]))
                     /\ \A m \in 1..(k - 1) : KeyLess(SortKey(ds[m]), SortKey(ds[k]))
             rest == SubSeq(ds, 1, k - 1) \o SubSeq(ds, k + 1, Len(ds))
         IN <<ds[k]>> \o SortDescending(rest)

\* Variant of ClosingFor: the keeper is put in to_close with the others.
ClosingFor_All(st, epic_ids, title) ==
    LET epic_details == SortDescending(
            [k \in 1..Len(epic_ids) |-> get_epic_details(st, epic_ids[k])])
        keeper == epic_details[1].id
    IN [k \in 1..Len(epic_details) |->
          [id |-> epic_details[k].id, keeper |-> keeper, title |-> title]]

\* One iteration of the loop over duplicates: the entries it adds to to_close.
ClosingFor(st, epic_ids, title) ==
    LET epic_details == SortDescending(
            [k \in 1..Len(epic_ids) |-> get_epic_details(st, epic_ids[k])])
        keeper == epic_details[1].id
    IN [k \in 1..(Len(epic_details) - 1) |->
          [id |-> epic_details[k + 1].id, keeper |-> keeper, title |-> title]]

\* The loop over duplicates from its k-th title on.
RECURSIVE ToCloseFrom(_, _, _, _)
ToCloseFrom(st, all_epics, titles, k) ==
    IF k > Len(titles) THEN <<>>
    ELSE ClosingFor(st, IdsOf(all_epics, titles[k]), titles[k])
         \o ToCloseFrom(st, all_epics, titles, k + 1)

CleanupInit ==
    /\ lines = <<>>
    /\ dry_run = FALSE
    /\ pc = "parse"
    /\ issues = <<>>
    /\ epic_map = <<>>
    /\ parent_map = <<>>
    /\ idx = 0
    /\ retry = 0
    /\ success_count = 0
    /\ failed_count = 0
    /\ next_id = 1
    /\ calls = <<>>
    /\ summary = [banner |-> "", deps |-> <<>>]
    /\ returned = <<>>
    /\ store \in Stores
    /\ cpc = "idle"
    /\ to_close = <<>>
    /\ close_idx = 0
    /\ runs = 0
    /\ close_calls = <<>>

\* main, from its start to the closing loop: list the epics, group them by
\* title, return when no title is listed twice, else fill to_close.
CleanupScan ==
    /\ cpc \in {"idle", "done"}
    /\ runs < MaxRuns
    /\ runs' = runs + 1
    /\ LET all_epics == get_all_epics(store)
           duplicates == DuplicateTitles(all_epics)
       IN IF duplicates = <<>>
          THEN /\ cpc' = "done"
               /\ to_close' = <<>>
               /\ close_idx' = 0
          ELSE /\ cpc' = "closing"
               /\ to_close' = ToCloseFrom(store, all_epics, duplicates, 1)
               /\ close_idx' = 1
    /\ UNCHANGED <<store, close_calls>>
    /\ UNCHANGED generate_vars

\* One iteration of the closing loop: subprocess.run(['bd', 'close', ...]),
\* whose result is not looked at.
CleanupClose(out) ==
    /\ cpc = "closing"
    /\ close_idx <= Len(to_close)
    /\ LET epic_id == to_close[close_idx].id IN
       /\ store' = IF out = "ok"
                   THEN [store EXCEPT ![epic_id].status = "closed"]
                   ELSE store
       /\ close_calls' = Append(close_calls,
                             [run |-> runs, id |-> epic_id,
                              keeper |-> to_close[close_idx].keeper,
                              res |-> out])
    /\ close_idx' = close_idx + 1
    /\ UNCHANGED <<cpc, to_close, runs>>
    /\ UNCHANGED generate_vars

\* End of the closing loop and the final statistics.
CleanupEnd ==
    /\ cpc = "closing"
    /\ close_idx > Len(to_close)
    /\ cpc' = "done"
    /\ UNCHANGED <<store, to_close, close_idx, runs, close_calls>>
    /\ UNCHANGED generate_vars

CleanupNext ==
    \/ CleanupScan
    \/ \E out \in CloseOutcomes : CleanupClose(out)
    \/ CleanupEnd

CleanupSpec == CleanupInit /\ [][CleanupNext]_vars

-----------------------------------------------------------------------------
(* History read-outs used by the properties                                *)

\* The third pass has been entered.
InThirdPass == pc = "phase3" \/ (pc = "done" /\ summary.deps # <<>>)

\* The pending edges: positions in parent_map.
Edges == 1..Len(parent_map)

\* The "dep add" calls made for edge e, in order.
Attempts(e) == SelectSeq(calls, LAMBDA c : c.op = "link" /\ c.item = e)

\* The loop of the third pass has left edge e.
EdgeDone(e) == \/ pc = "done" /\ summary.deps # <<>>
               \/ pc = "phase3" /\ idx > e

AllLocked(a) == \A n \in 1..Len(a) : a[n].res = "locked"

\* Edge e is finished and its last call failed.
EdgeFailed(e) ==
    EdgeDone(e) /\ Attempts(e) # <<>> /\ Attempts(e)[Len(Attempts(e))].res # "ok"

\* Edge e is finished and its last call succeeded.
EdgeLinked(e) ==
    EdgeDone(e) /\ Attempts(e) # <<>> /\ Attempts(e)[Len(Attempts(e))].res = "ok"

\* The create calls made for issue i, in order.
Creates(i) == SelectSeq(calls, LAMBDA c : c.op = "create" /\ c.item = i)

-----------------------------------------------------------------------------
(* C1: bounded retry.  In the third pass of a direct run, an edge whose    *)
(* "dep add" calls all fail with "database is locked" gets exactly 3       *)
(* calls and is then counted once as a failure; an edge whose first call   *)
(* fails for any other reason gets exactly 1 call and is counted once as   *)
(* a failure.  failed_count equals, at every moment, the number of         *)
(* finished edges whose last call failed, so each such edge adds exactly 1.*)
C1_BoundedRetry ==
    InThirdPass =>
      /\ \A e \in Edges :
           LET a == Attempts(e) IN
           /\ Len(a) <= MaxAttempts
           /\ (EdgeDone(e) /\ AllLocked(a)) => (Len(a) = 3 /\ EdgeFailed(e))
           /\ (a # <<>> /\ a[1].res = "other") => (Len(a) = 1 /\ EdgeFailed(e))
      /\ failed_count = Cardinality({e \in Edges : EdgeFailed(e)})

\* An edge has been given up after three locked calls, and counted.
C1_Witness ==
    /\ pc = "done"
    /\ \E e \in Edges : Len(Attempts(e)) = 3 /\ AllLocked(Attempts(e))
    /\ failed_count >= 1

(* C2: retry then success.  For every edge, a successful "dep add" call    *)
(* is the last call made for that edge, is preceded only by at most two    *)
(* locked calls, and the edge is then counted in success_count and not in  *)
(* failed_count: success_count equals, at every moment, the number of      *)
(* finished edges whose last call succeeded, and failed_count the number   *)
(* of the finished edges whose last call failed.                           *)
C2_RetryThenSuccess ==
    InThirdPass =>
      /\ \A e \in Edges :
           LET a == Attempts(e) IN
           \A n \in 1..Len(a) :
              a[n].res = "ok" =>
                /\ n = Len(a)
                /\ n <= 3
                /\ \A m \in 1..(n - 1) : a[m].res = "locked"
                /\ EdgeLinked(e)
      /\ success_count = Cardinality({e \in Edges : EdgeLinked(e)})
      /\ failed_count = Cardinality({e \in Edges : EdgeDone(e) /\ ~EdgeLinked(e)})

\* An edge was linked at its third call, after two locked calls, and the
\* run ended with no failure counted.
C2_Witness ==
    /\ pc = "done"
    /\ \E e \in Edges :
         LET a == Attempts(e) IN
         /\ Len(a) = 3
         /\ a[1].res = "locked" /\ a[2].res = "locked" /\ a[3].res = "ok"
    /\ success_count = Cardinality(Edges)
    /\ failed_count = 0

(* C3: phase ordering.  In the order the external commands are issued, no  *)
(* create of an epic-kind issue follows a create of a non-epic issue, no   *)
(* create follows a "dep add", creates happen only in the first two        *)
(* passes (epics in the first, the others in the second) and "dep add"     *)
(* only in the third.                                                      *)
C3_PhaseOrdering ==
    \A b \in 1..Len(calls) :
       /\ calls[b].op = "create" =>
            IF issues[calls[b].item].issue_type = "epic"
            THEN calls[b].ph = "phase1" ELSE calls[b].ph = "phase2"
       /\ calls[b].op = "link" => calls[b].ph = "phase3"
       /\ \A a \in 1..(b - 1) :
            /\ ~(/\ calls[a].op = "create" /\ calls[b].op = "create"
                 /\ issues[calls[a].item].issue_type # "epic"
                 /\ issues[calls[b].item].issue_type = "epic")
            /\ ~(calls[a].op = "link" /\ calls[b].op = "create")

\* A run that created an epic, then a child, then issued a "dep add".
C3_Witness ==
    \E a, b, c \in 1..Len(calls) :
       /\ a < b /\ b < c
       /\ calls[a].op = "create" /\ issues[calls[a].item].issue_type = "epic"
       /\ calls[b].op = "create" /\ issues[calls[b].item].issue_type # "epic"
       /\ calls[c].op = "link"

-----------------------------------------------------------------------------
(* More history read-outs                                                  *)

Items == 1..Len(issues)

\* The create command of issue i failed.
CreateFailed(i) ==
    \E k \in 1..Len(calls) :
       calls[k].op = "create" /\ calls[k].item = i /\ calls[k].res = "fail"

\* A create command of issue i, issued in pass ph, succeeded and returned id.
CreatedAs(i, ph, id) ==
    \E k \in 1..Len(calls) :
       /\ calls[k].op = "create" /\ calls[k].item = i /\ calls[k].ph = ph
       /\ calls[k].res = "ok" /\ calls[k].id = id

\* Issue i wrote a pending edge.
EdgeFrom(i) == \E e \in Edges : i \in parent_map[e].by

\* A "dep add" was issued for a pending edge that issue i wrote.
LinkedFrom(i) ==
    \E k \in 1..Len(calls) :
       calls[k].op = "link" /\ i \in parent_map[calls[k].item].by

\* The epic numbers of the group headers parsed.
HeaderKeys == {issues[g].epic_id : g \in {g \in Items : issues[g].epic_id # None}}

\* The parsed issues whose parent reference is "epic-<G>".
ChildrenOf(G) == {i \in Items : issues[i].parent = ParentRef(G)}

\* Issue i was read below some group header.
HasHeader(i) == \E h \in 1..(issues[i].src - 1) : EPIC_PATTERN(lines[h])

\* The line of the nearest group header above issue i.
HeaderLineOf(i) ==
    CHOOSE h \in 1..(issues[i].src - 1) :
       /\ EPIC_PATTERN(lines[h])
       /\ \A h2 \in (h + 1)..(issues[i].src - 1) : ~EPIC_PATTERN(lines[h2])

\* The epic parsed from the nearest group header above issue i.
GroupOf(i) == CHOOSE g \in Items : issues[g].src = HeaderLineOf(i)

-----------------------------------------------------------------------------
(* C4 as claimed: if the create of the group with key G fails in the first *)
(* pass, every child issue (an issue that is not an epic) whose parent     *)
(* reference is G is still created in the second pass and no edge of such  *)
(* an issue is submitted to "dep add".                                     *)
C4_Original ==
    \A g \in Items :
       (issues[g].epic_id # None /\ CreateFailed(g)) =>
          \A i \in ChildrenOf(issues[g].epic_id) :
             issues[i].issue_type # "epic" =>
               /\ pc \in {"phase3", "done"} =>
                    \E k \in 1..Len(calls) :
                       /\ calls[k].op = "create" /\ calls[k].item = i
                       /\ calls[k].ph = "phase2"
               /\ ~LinkedFrom(i)

(* C4 amended: if the create of every group header with number G fails in  *)
(* the first pass, every issue whose parent reference is G still gets      *)
(* exactly one create call (in the second pass when it is not of kind      *)
(* epic), and no such issue ever writes a pending edge or has a "dep add"  *)
(* issued for it.                                                          *)
C4_PhaseIndependence ==
    \A G \in HeaderKeys :
       (\A g \in Items : issues[g].epic_id = G => CreateFailed(g)) =>
          \A i \in ChildrenOf(G) :
             /\ pc \in {"phase3", "done"} =>
                  /\ Len(Creates(i)) = 1
                  /\ issues[i].issue_type # "epic" => Creates(i)[1].ph = "phase2"
             /\ ~EdgeFrom(i)
             /\ ~LinkedFrom(i)

\* A finished run in which a group failed, one of its children was created
\* and no edge was recorded for that child.
C4_Witness ==
    /\ pc = "done"
    /\ \E G \in HeaderKeys :
         /\ \A g \in Items : issues[g].epic_id = G => CreateFailed(g)
         /\ \E i \in ChildrenOf(G) :
              /\ issues[i].issue_type # "epic"
              /\ issues[i].beads_id \notin {None, EmptyId}

(* C5 as claimed: when a feature, task, chore or bug line is recognized    *)
(* before any group header, parsing fails: no issue list is returned and   *)
(* no create or "dep add" command is issued.                               *)
MalformedDocument(ls) ==
    \E i \in 1..Len(parse(<<>>, ls)) : parse(<<>>, ls)[i].parent = ParentRef(None)

C5_MalformedFailFast ==
    MalformedDocument(lines) => (issues = <<>> /\ calls = <<>>)

(* C6: group attachment.  Every parsed issue that is not of kind epic and  *)
(* was read below a group header refers to the number of the nearest       *)
(* group header above it, and the epic of that header stands earlier in    *)
(* the parsed list.                                                        *)
C6_GroupAttachment ==
    \A i \in Items :
       (issues[i].issue_type # "epic" /\ HasHeader(i)) =>
          LET h == HeaderLineOf(i) IN
          /\ issues[i].parent = EpicNum(lines[h])
          /\ \E j \in 1..(i - 1) :
               /\ issues[j].src = h
               /\ issues[j].issue_type = "epic"
               /\ issues[j].epic_id = EpicNum(lines[h])

\* A parsed child below two group headers with different numbers.
C6_Witness ==
    \E i \in Items :
       /\ issues[i].issue_type # "epic"
       /\ HasHeader(i)
       /\ \E h \in 1..(HeaderLineOf(i) - 1) :
            EPIC_PATTERN(lines[h]) /\ EpicNum(lines[h]) # issues[i].parent

(* C7: beads_id is written once.  An issue's beads_id is None until an     *)
(* execute_command for that issue succeeds; it is written only in the      *)
(* first pass for epics and in the second pass for the other issues; once  *)
(* written it never changes, the third pass changes no issue at all, and   *)
(* an issue whose create command failed keeps beads_id = None.             *)
C7_Absent ==
    \A i \in Items :
       /\ CreateFailed(i) => issues[i].beads_id = None
       /\ (issues[i].beads_id # None /\ ~dry_run) =>
            CreatedAs(i, IF issues[i].issue_type = "epic" THEN "phase1" ELSE "phase2",
                      issues[i].beads_id)

C7_Step ==
    /\ issues = <<>> => \A i \in DOMAIN issues' : issues'[i].beads_id = None
    /\ \A i \in DOMAIN issues :
         /\ issues[i].beads_id # None => issues'[i].beads_id = issues[i].beads_id
         /\ issues'[i].beads_id # issues[i].beads_id =>
              pc = (IF issues[i].issue_type = "epic" THEN "phase1" ELSE "phase2")
    /\ pc = "phase3" => issues' = issues

C7_WriteOnce == [](C7_Absent) /\ [][C7_Step]_vars

\* A run that went through the third pass with one issue created and
\* another one failed.
C7_Witness ==
    /\ pc = "done"
    /\ summary.deps # <<>>
    /\ \E i, j \in Items :
         /\ CreateFailed(i) /\ issues[i].beads_id = None
         /\ issues[j].beads_id \notin {None, EmptyId}

(* C8 as claimed, on documents where every item line stands below a group  *)
(* header: every "dep add" call carries a child id returned by a           *)
(* successful second-pass create and the id returned by the successful     *)
(* first-pass create of the group the child stands in (the nearest group   *)
(* header above it); an issue whose create failed never writes an edge.    *)
C8_Original ==
    ~MalformedDocument(lines) =>
      /\ \A k \in 1..Len(calls) :
           calls[k].op = "link" =>
             \E i \in parent_map[calls[k].item].by :
                /\ CreatedAs(i, "phase2", calls[k].child)
                /\ HasHeader(i)
                /\ CreatedAs(GroupOf(i), "phase1", calls[k].parent)
      /\ \A i \in Items : CreateFailed(i) => ~EdgeFrom(i)

(* C8 amended: every pending edge of a direct run, and every "dep add"     *)
(* call, carries a child id returned by a successful second-pass create    *)
(* and a parent id returned by a successful first-pass create of an epic   *)
(* whose number is the child's parent reference (with repeated group       *)
(* numbers this need not be the nearest header above the child); an issue  *)
(* whose create failed never writes an edge.                               *)
C8_LinkSoundness ==
    /\ ~dry_run =>
         \A e \in Edges :
            \E i \in parent_map[e].by :
               /\ CreatedAs(i, "phase2", parent_map[e].child)
               /\ \E g \in Items :
                    /\ issues[g].issue_type = "epic"
                    /\ issues[g].epic_id = issues[i].parent
                    /\ CreatedAs(g, "phase1", parent_map[e].parent)
    /\ \A k \in 1..Len(calls) :
         calls[k].op = "link" =>
           /\ calls[k].item \in Edges
           /\ calls[k].child = parent_map[calls[k].item].child
           /\ calls[k].parent = parent_map[calls[k].item].parent
    /\ \A i \in Items : CreateFailed(i) => ~EdgeFrom(i)

\* A "dep add" succeeded for one child while the create of another child
\* had failed.
C8_Witness ==
    /\ \E k \in 1..Len(calls) : calls[k].op = "link" /\ calls[k].res = "ok"
    /\ \E i \in Items : issues[i].issue_type # "epic" /\ CreateFailed(i)

(* C9: failures never abort the run.  A direct run that has parsed its     *)
(* document reaches the closing prints, whatever the commands return, with *)
(* exactly one create call made for every parsed issue and at least one    *)
(* "dep add" call made for every pending edge.                             *)
C9_RunCompletes ==
    (pc = "phase1" /\ ~dry_run) ~>
       (/\ pc = "done"
        /\ \A i \in Items : Len(Creates(i)) = 1
        /\ \A e \in Edges : Len(Attempts(e)) >= 1)

\* A finished run with a failed create and an edge given up after three
\* locked calls.
C9_Witness ==
    /\ pc = "done"
    /\ ~dry_run
    /\ \E i \in Items : CreateFailed(i)
    /\ \E e \in Edges : EdgeFailed(e) /\ Len(Attempts(e)) = MaxAttempts

(* C10 as claimed: at the end of a direct run the printed failure tally    *)
(* accounts for every failed create and every permanently failed edge, and *)
(* a run with a failure does not print the all-successful banner.          *)
ReportedFailures == IF summary.deps = <<>> THEN 0 ELSE summary.deps[2]

C10_FailuresInSummary ==
    (pc = "done" /\ ~dry_run) =>
       LET failures == Cardinality({i \in Items : CreateFailed(i)})
                       + Cardinality({e \in Edges : EdgeFailed(e)})
       IN /\ ReportedFailures = failures
          /\ failures > 0 => summary.banner # FinalBanner

-----------------------------------------------------------------------------
(* C11: a dry run executes nothing.  With dry_run set, no external command *)
(* is ever issued (calls stays empty in all three passes), the third pass  *)
(* is never entered and no dependency tally is printed, however many       *)
(* pending edges were collected; every create reached by the first two     *)
(* passes is reported as a success, the issue taking the synthetic id      *)
(* derived from its command, so that at the end every parsed issue has     *)
(* one.                                                                    *)
C11_DryRunExecutesNothing ==
    dry_run =>
      /\ calls = <<>>
      /\ pc \notin {"phase3", "aborted"}
      /\ summary.deps = <<>>
      /\ next_id = 1
      /\ \A i \in Items :
           /\ issues[i].beads_id \in {None, DryRunId(to_command(issues[i]), issues)}
           /\ (\/ pc = "done"
               \/ pc = "phase2" /\ (i < idx \/ issues[i].issue_type = "epic")
               \/ pc = "phase1" /\ i < idx /\ issues[i].issue_type = "epic")
                 => issues[i].beads_id = DryRunId(to_command(issues[i]), issues)

\* A finished dry run over an epic and two features that collected a
\* pending edge.
C11_Witness ==
    /\ dry_run
    /\ pc = "done"
    /\ parent_map # <<>>
    /\ Len(issues) >= 3
    /\ \A i \in Items : issues[i].beads_id >= 100

-----------------------------------------------------------------------------
\* Two issue lists of the same length with the same kinds, titles,
\* priorities and parent references, in the same order.
SameItems(a, b) ==
    /\ Len(a) = Len(b)
    /\ \A i \in 1..Len(a) :
         /\ a[i].issue_type = b[i].issue_type
         /\ a[i].title = b[i].title
         /\ a[i].priority = b[i].priority
         /\ a[i].parent = b[i].parent
         /\ a[i].epic_id = b[i].epic_id

(* C12 as claimed: a second parse() call on the same WorkPlanParser object *)
(* returns a list with the same items, in the same order, as the list the  *)
(* first call returned.                                                    *)
C12_IdempotentReparse ==
    Len(returned) = 2 => SameItems(returned[1], returned[2])

-----------------------------------------------------------------------------
\* The item-marker lines, and the section line ("### Features", "### Tasks",
\* "### Chores", "### Potential Bugs") each one belongs under.
IsMarker(line) == line \in {"F", "T", "C", "B"}
SectionFor(line) ==
    CASE line = "F" -> "SecF"
      [] line = "T" -> "SecT"
      [] line = "C" -> "SecC"
      [] line = "B" -> "SecB"

\* The nearest "### " line above line n of the document, if any.
SectionAbove(n) ==
    IF \E h \in 1..(n - 1) : IsSectionHeader(lines[h])
    THEN lines[CHOOSE h \in 1..(n - 1) :
                  /\ IsSectionHeader(lines[h])
                  /\ \A h2 \in (h + 1)..(n - 1) : ~IsSectionHeader(lines[h2])]
    ELSE NoSection

\* Line n is a marker line standing in the section that admits it.
Admitted(n) ==
    /\ IsMarker(lines[n])
    /\ SectionAbove(n) = SectionFor(lines[n])

\* The parsed issues read from line n.
EmittedAt(n) == {i \in Items : issues[i].src = n}

-----------------------------------------------------------------------------
\* The store is as the current run of the script listed it: the run has
\* scanned and has closed nothing yet.
JustScanned == cpc \in {"closing", "done"} /\ \A c \in DOMAIN close_calls : close_calls[c].run < runs

\* The open epics the script lists under title t.
ListedWith(t) ==
    {k \in 1..Len(store) :
        store[k].status = "open" /\ store[k].priority = 1 /\ store[k].title = t}

\* The ids the current run has put in to_close for title t.
ClosingWith(t) ==
    {to_close[j].id : j \in {j \in 1..Len(to_close) : to_close[j].title = t}}

(* C14 as claimed: for every title carried by more than one listed open    *)
(* epic, all with a readable creation time, the run puts in to_close every *)
(* epic of that title except one with the latest creation time.            *)
C14_KeepsNewest ==
    JustScanned =>
      \A t \in Titles :
         (/\ Cardinality(ListedWith(t)) > 1
          /\ \A k \in ListedWith(t) : store[k].created # None) =>
            \E k \in ListedWith(t) :
               /\ \A m \in ListedWith(t) : store[m].created <= store[k].created
               /\ ClosingWith(t) = ListedWith(t) \ {k}

\* Every "bd close" that run r issued took effect.
AllClosed(r) ==
    \A c \in DOMAIN close_calls : close_calls[c].run = r => close_calls[c].res = "ok"

(* C15: cleanup is idempotent.  When every "bd close" of one run of the    *)
(* script took effect, the next run finds no title listed twice: it        *)
(* returns with an empty to_close and issues no "bd close".                *)
C15_CleanupIdempotent ==
    \A r \in 2..runs :
       AllClosed(r - 1) =>
         /\ \A c \in DOMAIN close_calls : close_calls[c].run # r
         /\ r = runs => (cpc = "done" /\ to_close = <<>>)

\* A second run that followed a run whose two closes both took effect.
C15_Witness ==
    /\ runs = 2
    /\ cpc = "done"
    /\ AllClosed(1)
    /\ Cardinality({c \in DOMAIN close_calls : close_calls[c].run = 1}) >= 2

-----------------------------------------------------------------------------
\* The line of the next group header below line h, or one past the end.
NextHeader(h) ==
    IF \E n \in (h + 1)..Len(lines) : EPIC_PATTERN(lines[n])
    THEN CHOOSE n \in (h + 1)..Len(lines) :
            /\ EPIC_PATTERN(lines[n])
            /\ \A n2 \in (h + 1)..(n - 1) : ~EPIC_PATTERN(lines[n2])
    ELSE Len(lines) + 1

\* The "**Description:**" lines of the group whose header is line h.
MarkersOf(h) == {m \in (h + 1)..(NextHeader(h) - 1) : lines[m] = "DescMark"}

(* C16 as claimed: the description of the epic read from a group header is *)
(* built only from lines between that header and the next group header     *)
(* (the lines that follow the group's first Description marker), and it is *)
(* empty when the group has no Description marker.                         *)
C16_DescriptionLocal ==
    pc = "phase1" =>
      \A g \in Items :
         issues[g].issue_type = "epic" /\ EPIC_PATTERN(lines[issues[g].src]) =>
           LET h == issues[g].src
               d == issues[g].description
           IN IF MarkersOf(h) = {}
              THEN d = <<>>
              ELSE LET m == CHOOSE m \in MarkersOf(h) :
                               \A m2 \in MarkersOf(h) : m <= m2
                   IN /\ m + Len(d) < NextHeader(h)
                      /\ d = SubSeq(lines, m + 1, m + Len(d))

-----------------------------------------------------------------------------
\* A line that ends the attribute block of a feature: a blank line, an item
\* marker, a group header or a section header.
IsBoundary(line) ==
    line = "Blank" \/ IsMarker(line) \/ EPIC_PATTERN(line) \/ IsSectionHeader(line)

\* The first boundary line below line n, or one past the end.
BoundaryBelow(n) ==
    IF \E b \in (n + 1)..Len(lines) : IsBoundary(lines[b])
    THEN CHOOSE b \in (n + 1)..Len(lines) :
            /\ IsBoundary(lines[b])
            /\ \A b2 \in (n + 1)..(b - 1) : ~IsBoundary(lines[b2])
    ELSE Len(lines) + 1

\* The lines of the attribute block of the feature at line n.
AttrBlock(n) == (n + 1)..(BoundaryBelow(n) - 1)

(* C17 as claimed: a feature keeps its default priority 2, its default     *)
(* kind and an empty description unless a Priority, Type or Description    *)
(* line stands between the feature line and the first boundary below it;   *)
(* its description has no more parts than that block has Description       *)
(* lines.                                                                  *)
C17_AttrScanBounded ==
    pc = "phase1" =>
      \A i \in Items :
         lines[issues[i].src] = "F" =>
           LET n == issues[i].src IN
           /\ issues[i].priority # 2 => \E a \in AttrBlock(n) : IsPriority(lines[a])
           /\ issues[i].issue_type # "feature" => \E a \in AttrBlock(n) : IsType(lines[a])
           /\ Len(issues[i].description)
                <= Cardinality({a \in AttrBlock(n) : IsFeatureDesc(lines[a])})

-----------------------------------------------------------------------------
(* C18 as claimed: a group header resets the current section.  A marker    *)
(* line that has a group header above it with no "### " line in between    *)
(* is read with no current section and gives no issue.                     *)
C18_HeaderFlushesSection ==
    pc = "phase1" =>
      \A n \in 1..Len(lines) :
         (/\ IsMarker(lines[n])
          /\ \E h \in 1..(n - 1) :
                /\ EPIC_PATTERN(lines[h])
                /\ \A k \in (h + 1)..(n - 1) : ~IsSectionHeader(lines[k]))
           => EmittedAt(n) = {}

-----------------------------------------------------------------------------
\* The "dep add" calls issued so far.
LinkCalls == {k \in 1..Len(calls) : calls[k].op = "link"}

(* C19: the edge tally is exact.  During the third pass the two counters   *)
(* add up to the number of edges the loop has left; at its end they add up *)
(* to the number of pending edges, every pending edge is either linked or  *)
(* given up and never both, the printed tally is these two numbers, and    *)
(* the "dep add" calls number at most 3 per pending edge.                  *)
C19_EdgeTallyExact ==
    /\ pc = "phase3" =>
         /\ idx <= Len(parent_map) + 1
         /\ success_count + failed_count = idx - 1
    /\ (pc = "done" /\ summary.deps # <<>>) =>
         /\ success_count + failed_count = Len(parent_map)
         /\ summary.deps = <<success_count, failed_count>>
         /\ \A e \in Edges : EdgeLinked(e) # EdgeFailed(e)
         /\ Cardinality(LinkCalls) <= 3 * Len(parent_map)
         /\ Cardinality(LinkCalls) >= Len(parent_map)

\* A finished third pass over two edges, one linked and one given up, with
\* more calls than edges.
C19_Witness ==
    /\ pc = "done"
    /\ Len(parent_map) = 2
    /\ summary.deps = <<1, 1>>
    /\ Cardinality(LinkCalls) > 2

-----------------------------------------------------------------------------
\* The create command of issue i succeeded.
CreateSucceeded(i) == \E k \in 1..Len(calls) :
    calls[k].op = "create" /\ calls[k].item = i /\ calls[k].res = "ok"

\* The id the successful create command of issue i returned.
ReturnedId(i) ==
    calls[CHOOSE k \in 1..Len(calls) :
             calls[k].op = "create" /\ calls[k].item = i /\ calls[k].res = "ok"].id

(* C20 as claimed: at the end of a direct run, every issue read from an    *)
(* item line below a group header, whose create succeeded and whose        *)
(* group's create succeeded, has exactly one pending edge (its id, the     *)
(* group's id), and a "dep add" was issued for that edge.                  *)
C20_LinkCompleteness ==
    (pc = "done" /\ ~dry_run) =>
      \A i \in Items :
         (/\ IsMarker(lines[issues[i].src])
          /\ HasHeader(i)
          /\ CreateSucceeded(i)
          /\ CreateSucceeded(GroupOf(i))) =>
            LET mine == {e \in Edges :
                           /\ parent_map[e].child = ReturnedId(i)
                           /\ parent_map[e].parent = ReturnedId(GroupOf(i))}
            IN /\ Cardinality(mine) = 1
               /\ \A e \in mine : Attempts(e) # <<>>

-----------------------------------------------------------------------------
\* The "bd close" calls the current run has issued.
CurrentCloses == {c \in DOMAIN close_calls : close_calls[c].run = runs}

\* The epics the current run has issued a "bd close" for.
IssuedClose == {close_calls[c].id : c \in CurrentCloses}

\* The epics of title t the current run listed: the [P1] epics that are
\* open, or that a close of this run has closed since the listing.
ListedAtScan(t) ==
    {k \in 1..Len(store) :
        /\ store[k].title = t
        /\ store[k].priority = 1
        /\ \/ store[k].status = "open"
           \/ \E c \in CurrentCloses :
                 close_calls[c].id = k /\ close_calls[c].res = "ok"}

(* C21: cleanup closes all but one per title and nothing else.  In every   *)
(* run of the script no epic is issued more than one "bd close", and only  *)
(* listed epics are issued one; for a title listed twice or more at least  *)
(* one listed epic is issued none, and when the run has ended exactly one  *)
(* is issued none and each of the others exactly one; an epic whose title  *)
(* is listed once is issued none.                                          *)
C21_ClosesAllButOne ==
    /\ \A c, d \in CurrentCloses :
         close_calls[c].id = close_calls[d].id => c = d
    /\ \A k \in IssuedClose : k \in ListedAtScan(store[k].title)
    /\ \A t \in Titles :
         LET L == ListedAtScan(t)
             spared == L \ IssuedClose
         IN /\ Cardinality(L) >= 2 =>
                 /\ spared # {}
                 /\ cpc = "done" => Cardinality(spared) = 1
            /\ Cardinality(L) = 1 => spared = L

\* A finished run that listed two epics under one title and one under the
\* other, and issued one close, which failed.
C21_Witness ==
    /\ cpc = "done"
    /\ \E t, u \in Titles :
         /\ Cardinality(ListedAtScan(t)) = 2
         /\ Cardinality(ListedAtScan(t) \cap IssuedClose) = 1
         /\ Cardinality(ListedAtScan(u)) = 1
    /\ \E c \in CurrentCloses : close_calls[c].res = "fail"

====
